---- MODULE Spec2Model ----
(***************************************************************************)
(* Model of the config-mode run of the agent: connectMcpServers and        *)
(* runConfigMode (src/src/index.ts), runConfigStrategy                     *)
(* (src/src/config-strategy.ts) and sanitizeTools                          *)
(* (src/src/sanitize-tools.ts).                                            *)
(*                                                                         *)
(* Every await of the source is a step boundary: an action covers the code *)
(* that runs between two awaits.  The outcome of an awaited external call  *)
(* (createMCPClient, client.tools, generateText, client.close) is an input *)
(* of the action: it resolves with a value drawn from a small set, or it   *)
(* rejects.                                                                *)
(***************************************************************************)
EXTENDS Integers, Sequences, FiniteSets, TLC

\* ---------------------------------------------------------------- bounds
MaxSteps == 2          \* steps reported by one generateText call (code: <= 10)
NumServers == 2        \* entries of config.mcp_servers
MaxNodes == 5          \* nodes of a schema tree given to sanitizeSchema

\* ------------------------------------------------------ program constants
MAX_ATTEMPTS == 3
SUBMIT_TOOL == "submit_decision"
STRIP_KEYS ==
  {"minLength", "maxLength", "minItems", "maxItems", "exclusiveMinimum",
   "exclusiveMaximum", "pattern", "format", "default", "$schema"}

SeedMessage ==
  [role |-> "user", content |-> "Analyze the market and make your trading decision for this interval."]
CorrectiveMessage ==
  [role |-> "user", content |-> "You did not call submit_decision. You MUST call submit_decision with your trades to complete your turn. Analyze the market and submit now."]

\* ------------------------------------------------------------ schema trees
\* A JSON value is a tagged node: a mapping (object), a sequence (array) or a
\* leaf (string, number, boolean, null).
Leaf(v) == [kind |-> "leaf", val |-> v]
Map(f) == [kind |-> "map", fields |-> f]
Arr(s) == [kind |-> "seq", items |-> s]

RECURSIVE sanitizeSchemaSkipping(_)
\* mutant: the keys are deleted while the mapping is iterated, so the entry
\* visited right after a deleted one is skipped and copied as it is: "items"
\* is not sanitized when "minLength" was deleted before it
sanitizeSchemaSkipping(schema) ==
  [key \in (DOMAIN schema) \ STRIP_KEYS |->
     LET value == schema[key] IN
     IF key = "items" /\ "minLength" \in DOMAIN schema THEN value
     ELSE IF value.kind = "map" THEN Map(sanitizeSchemaSkipping(value.fields))
     ELSE IF value.kind = "seq" THEN
       Arr([i \in 1..Len(value.items) |->
              LET item == value.items[i] IN
              IF item.kind = "map" THEN Map(sanitizeSchemaSkipping(item.fields))
              ELSE item])
     ELSE value]

RECURSIVE sanitizeSchemaObjectItems(_)
\* mutant: array items that are not objects are dropped
sanitizeSchemaObjectItems(schema) ==
  [key \in (DOMAIN schema) \ STRIP_KEYS |->
     LET value == schema[key] IN
     IF value.kind = "map" THEN Map(sanitizeSchemaObjectItems(value.fields))
     ELSE IF value.kind = "seq" THEN
       LET objects == SelectSeq(value.items, LAMBDA item : item.kind = "map")
       IN Arr([i \in 1..Len(objects) |->
                 Map(sanitizeSchemaObjectItems(objects[i].fields))])
     ELSE value]

RECURSIVE sanitizeSchema(_)
\* schema: the fields of a mapping node (key -> node)
sanitizeSchema(schema) ==
  [key \in (DOMAIN schema) \ STRIP_KEYS |->
     LET value == schema[key] IN
     IF value.kind = "map" THEN Map(sanitizeSchema(value.fields))
     ELSE IF value.kind = "seq" THEN
       Arr([i \in 1..Len(value.items) |->
              LET item == value.items[i] IN
              IF item.kind = "map" THEN Map(sanitizeSchema(item.fields))
              ELSE item])
     ELSE value]

\* asSchema(tool.inputSchema).jsonSchema: the node the tool's schema resolves
\* to.  A tool is [owner, inputSchema, wrapped]; wrapped is TRUE once the
\* schema has been rebuilt by jsonSchema(cleaned).
\* lines 63-64 have no handler: sanitizeTools throws when the resolution of
\* one tool's schema does
sanitizeToolsThrows(tools) ==
  \E name \in DOMAIN tools : tools[name].inputSchema.kind = "throws"

\* the tool set returned when no resolution throws
sanitizeTools(tools) ==
  [name \in DOMAIN tools |->
     LET tool == tools[name]
         raw == tool.inputSchema
     IN IF raw.kind # "map" THEN tool
        ELSE [tool EXCEPT !.inputSchema = Map(sanitizeSchema(raw.fields)),
                          !.wrapped = TRUE]]

\* ------------------------------------------------------------ input sets
EnvNames == {"X", "LLM_API_KEY"}
\* requires of a descriptor: absent or empty (no gate), or naming variables
RequiresChoices == {<<>>, <<"X">>, <<"LLM_API_KEY", "X">>}
ModelConfigs ==
  { [provider |-> "openai", base_url |-> FALSE],
    [provider |-> "custom", base_url |-> TRUE],
    [provider |-> "custom", base_url |-> FALSE] }
KnownProviders == {"xai", "openai", "anthropic", "google"}

\* schemas a provider's tool may carry: an object schema with constraint
\* keywords at two depths, and a schema that resolves to no object
ObjectSchema ==
  Map([type |-> Leaf("object"), format |-> Leaf("x"),
       properties |-> Map([q |-> Map([type |-> Leaf("string"),
                                      minLength |-> Leaf(1)])])])
NoSchema == Leaf("null")
\* a schema whose resolution (asSchema(...).jsonSchema) throws
Unresolvable == [kind |-> "throws", val |-> "error"]

Tool(owner, schema) == [owner |-> owner, inputSchema |-> schema, wrapped |-> FALSE]
\* what client.tools() of provider i may resolve with
ToolSets(i) ==
  { [n \in {"t"} |-> Tool(i, ObjectSchema)],
    [n \in {"t", "u"} |-> Tool(i, IF n = "t" THEN NoSchema ELSE ObjectSchema)],
    [n \in {"u"} |-> Tool(i, Unresolvable)] }

\* one tool-call list per step of a generateText result
StepChoices ==
  { [toolCalls |-> <<>>],
    [toolCalls |-> <<"get_prices">>],
    [toolCalls |-> <<"get_prices", SUBMIT_TOOL>>] }
Texts == {"hold", "buy"}

SeqsUpTo(S, n) == UNION { [1..k -> S] : k \in 0..n }

\* outcome of one generateText call: it resolves with {steps, text} or rejects
Results == [ok : {TRUE}, steps : SeqsUpTo(StepChoices, MaxSteps), text : Texts]
Failure == [ok |-> FALSE, steps |-> <<>>, text |-> ""]
Outcomes == Results \cup {Failure}

\* ------------------------------------------------------ config-strategy.ts
\* mutant: only the last step is scanned
hasSubmitInLastStep(steps) ==
  /\ steps # <<>>
  /\ \E j \in 1..Len(steps[Len(steps)].toolCalls) :
       steps[Len(steps)].toolCalls[j] = SUBMIT_TOOL

\* mutant: only the first call of each step is looked at
hasSubmitAsFirstCall(steps) ==
  \E i \in 1..Len(steps) :
    steps[i].toolCalls # <<>> /\ steps[i].toolCalls[1] = SUBMIT_TOOL

hasSubmitDecision(steps) ==
  \E i \in 1..Len(steps) :
    \E j \in 1..Len(steps[i].toolCalls) : steps[i].toolCalls[j] = SUBMIT_TOOL

getModelThrows(e, cfg) ==
  \/ "LLM_API_KEY" \notin e
  \/ cfg.provider \notin KnownProviders /\ ~cfg.base_url

\* mutant: the calls of the last step only
countLastStepCalls(steps) ==
  IF steps = <<>> THEN 0 ELSE Len(steps[Len(steps)].toolCalls)

RECURSIVE countToolCalls(_)
\* result.steps.reduce((n, s) => n + s.toolCalls.length, 0)
countToolCalls(steps) ==
  IF steps = <<>> THEN 0
  ELSE countToolCalls(SubSeq(steps, 1, Len(steps) - 1))
       + Len(steps[Len(steps)].toolCalls)

\* mutant: the echo and the corrective message are pushed after every attempt
nextMessagesAlways(msgs, att, text) ==
  msgs \o << [role |-> "assistant", content |-> text], CorrectiveMessage >>

\* mutant: each retry starts from the seed again, the earlier echoes and
\* corrections are dropped
nextMessagesFresh(msgs, att, text) ==
  IF att < MAX_ATTEMPTS
    THEN << SeedMessage, [role |-> "assistant", content |-> text], CorrectiveMessage >>
    ELSE msgs

\* mutant: the corrective message is pushed before the echo
nextMessagesSwapped(msgs, att, text) ==
  IF att < MAX_ATTEMPTS
    THEN msgs \o << CorrectiveMessage, [role |-> "assistant", content |-> text] >>
    ELSE msgs

\* lines 108-123: the messages after an attempt without submission
nextMessages(msgs, att, text) ==
  IF att < MAX_ATTEMPTS
    THEN msgs \o << [role |-> "assistant", content |-> text], CorrectiveMessage >>
    ELSE msgs

\* mutant: the retry notice is printed after the last attempt too, the
\* warning never
attemptNoticeRetryOnly(steps, att) ==
  IF hasSubmitDecision(steps) THEN <<>>
  ELSE << [kind |-> "retry", attempt |-> att] >>

\* lines 106-129: the report printed after an attempt
attemptNotice(steps, att) ==
  IF hasSubmitDecision(steps) THEN <<>>
  ELSE IF att < MAX_ATTEMPTS THEN << [kind |-> "retry", attempt |-> att] >>
  ELSE << [kind |-> "warning", attempt |-> att] >>

\* ---------------------------------------------------------------- index.ts
\* mutant: the descriptor is skipped only when all its variables are unset
missingAll(server, e) ==
  IF \A j \in 1..Len(server.requires) : server.requires[j] \notin e
    THEN server.requires ELSE <<>>

\* lines 95-99: the required variables that are unset (or empty)
missing(server, e) == SelectSeq(server.requires, LAMBDA v : v \notin e)

RECURSIVE mergeToolsFirstWins(_)
\* mutant: a name already merged is kept, the later provider's tool is dropped
mergeToolsFirstWins(list) ==
  IF list = <<>> THEN <<>>
  ELSE LET before == mergeToolsFirstWins(SubSeq(list, 1, Len(list) - 1))
           last == list[Len(list)].tools
       IN [n \in DOMAIN before \cup DOMAIN last |->
             IF n \in DOMAIN before THEN before[n] ELSE last[n]]

RECURSIVE mergeTools(_)
\* lines 159-162: Object.assign(rawTools, server.tools) in list order
mergeTools(list) ==
  IF list = <<>> THEN <<>>
  ELSE LET before == mergeTools(SubSeq(list, 1, Len(list) - 1))
           last == list[Len(list)].tools
       IN [n \in DOMAIN before \cup DOMAIN last |->
             IF n \in DOMAIN last THEN last[n] ELSE before[n]]

\* mutant: no finally block, the servers are closed on normal return only
afterStrategyNoFinally(threw) == IF threw THEN "exit" ELSE "finally"

\* lines 169-173: where control goes when runConfigStrategy returns (threw =
\* FALSE) or throws (threw = TRUE): the finally block either way
afterStrategy(threw) == "finally"

\* line 175: the rest of the finally loop after close of server i settled
afterClose(i, rejected) == IF rejected THEN "exit" ELSE "finally"

\* line 274: main().catch sets the exit code
exitCodeOf(err) == IF err = "none" THEN 0 ELSE 1

VARIABLES
  env,            \* names of the environment variables with a non-empty value
  config,         \* config.model
  servers,        \* config.mcp_servers, in Object.entries order
  backend,        \* the outcomes a generateText call may settle with
  pc,             \* position of the run
  error,          \* the error propagating, "none" if none
  idx,            \* connectMcpServers: index of the descriptor being processed
  opened,         \* per descriptor: createMCPClient calls
  fetched,        \* per descriptor: client.tools() calls
  closed,         \* per descriptor: client.close() calls
  connected,      \* connectMcpServers: the connected list
  allTools,       \* runConfigMode: the sanitized merged tool set
  attempt,        \* runConfigStrategy: loop counter
  messages,       \* runConfigStrategy: the conversation
  totalSteps, totalToolCalls,
  invocations,    \* generateText calls made
  given,          \* the messages passed to each generateText call
  results,        \* the outcome of each generateText call
  log,            \* retry / warning / completed reports of runConfigStrategy
  closeIdx,       \* runConfigMode finally: index into the connected list
  exitCode,       \* process.exitCode, -1 while the run has not settled
  schema,         \* sanitizeSchema on its own: the argument
  cleaned,        \* its result
  cleanedTwice,   \* the result of sanitizeSchema on that result
  sanPc           \* "idle", or how often sanitizeSchema was applied

vars == << env, config, servers, backend, pc, error, idx, opened, fetched,
           closed, connected, allTools, attempt, messages, totalSteps,
           totalToolCalls, invocations, given, results, log, closeIdx, exitCode,
           schema, cleaned, cleanedTwice, sanPc >>

sanVars == << schema, cleaned, cleanedTwice, sanPc >>

inputs == << env, config, servers, backend >>
connectVars == << idx, opened, fetched, connected >>
strategyVars == << attempt, messages, totalSteps, totalToolCalls,
                   invocations, given, results, log >>

\* the backend of the runs with tool providers: it rejects, submits, or
\* answers without submitting
RunOutcomes ==
  { Failure,
    [ok |-> TRUE, steps |-> << [toolCalls |-> <<"get_prices", SUBMIT_TOOL>>] >>, text |-> "buy"],
    [ok |-> TRUE, steps |-> << [toolCalls |-> <<"get_prices">>] >>, text |-> "hold"],
    [ok |-> TRUE, steps |-> <<>>, text |-> "buy"] }

Start ==
  /\ pc = "connect" /\ error = "none" /\ idx = 1
  /\ opened = [i \in 1..Len(servers) |-> 0]
  /\ fetched = [i \in 1..Len(servers) |-> 0]
  /\ closed = [i \in 1..Len(servers) |-> 0]
  /\ connected = <<>>
  /\ allTools = <<>>
  /\ attempt = 0 /\ messages = <<>> /\ totalSteps = 0 /\ totalToolCalls = 0
  /\ invocations = 0 /\ given = <<>> /\ results = <<>> /\ log = <<>>
  /\ closeIdx = 0 /\ exitCode = -1

\* sanitizeSchema is not run on its own
SanIdle ==
  /\ schema = <<>> /\ cleaned = <<>> /\ cleanedTwice = <<>> /\ sanPc = "idle"

Init ==
  /\ env \in SUBSET EnvNames
  /\ config \in ModelConfigs
  /\ servers \in SeqsUpTo([requires : RequiresChoices], NumServers)
  /\ backend = RunOutcomes
  /\ Start
  /\ SanIdle

\* ------------------------------------------------- connectMcpServers steps
\* lines 94-106: the credential gate skips the descriptor
SkipServer ==
  /\ pc = "connect" /\ idx <= Len(servers)
  /\ missing(servers[idx], env) # <<>>
  /\ idx' = idx + 1
  /\ UNCHANGED << sanVars, inputs, pc, error, opened, fetched, closed, connected,
                  allTools, strategyVars, closeIdx, exitCode >>

\* lines 108-145: createMCPClient resolves
CreateClient ==
  /\ pc = "connect" /\ idx <= Len(servers)
  /\ missing(servers[idx], env) = <<>>
  /\ opened' = [opened EXCEPT ![idx] = @ + 1]
  /\ pc' = "tools"
  /\ UNCHANGED << sanVars, inputs, error, idx, fetched, closed, connected, allTools,
                  strategyVars, closeIdx, exitCode >>

\* mutant: a rejected createMCPClient is caught and the loop goes on with the
\* next descriptor
CreateClientFailsSkipped ==
  /\ pc = "connect" /\ idx <= Len(servers)
  /\ missing(servers[idx], env) = <<>>
  /\ opened' = [opened EXCEPT ![idx] = @ + 1]
  /\ idx' = idx + 1
  /\ UNCHANGED << sanVars, inputs, pc, error, fetched, closed, connected, allTools,
                  strategyVars, closeIdx, exitCode >>

\* lines 108-145: createMCPClient rejects; connectMcpServers has no handler,
\* runConfigMode awaits it outside its try (line 156)
CreateClientFails ==
  /\ pc = "connect" /\ idx <= Len(servers)
  /\ missing(servers[idx], env) = <<>>
  /\ opened' = [opened EXCEPT ![idx] = @ + 1]
  /\ error' = "connect"
  /\ pc' = "exit"
  /\ UNCHANGED << sanVars, inputs, idx, fetched, closed, connected, allTools,
                  strategyVars, closeIdx, exitCode >>

\* mutant: the server is put at the front of the list
FetchToolsUnshift ==
  /\ pc = "tools"
  /\ fetched' = [fetched EXCEPT ![idx] = @ + 1]
  /\ \E ts \in ToolSets(idx) :
       connected' = << [name |-> idx, tools |-> ts] >> \o connected
  /\ idx' = idx + 1
  /\ pc' = "connect"
  /\ UNCHANGED << sanVars, inputs, error, opened, closed, allTools, strategyVars,
                  closeIdx, exitCode >>

\* lines 146-148: client.tools() resolves, the server joins the list
FetchTools ==
  /\ pc = "tools"
  /\ fetched' = [fetched EXCEPT ![idx] = @ + 1]
  /\ \E ts \in ToolSets(idx) :
       connected' = Append(connected, [name |-> idx, tools |-> ts])
  /\ idx' = idx + 1
  /\ pc' = "connect"
  /\ UNCHANGED << sanVars, inputs, error, opened, closed, allTools, strategyVars,
                  closeIdx, exitCode >>

\* line 146: client.tools() rejects
FetchToolsFails ==
  /\ pc = "tools"
  /\ fetched' = [fetched EXCEPT ![idx] = @ + 1]
  /\ error' = "tools"
  /\ pc' = "exit"
  /\ UNCHANGED << sanVars, inputs, idx, opened, closed, connected, allTools,
                  strategyVars, closeIdx, exitCode >>

\* ------------------------------------------------------ runConfigMode steps
\* index.ts 150, 156-171 and config-strategy.ts 77-90: connectMcpServers
\* returns, the tools are merged and sanitized, runConfigStrategy is entered
\* and reaches its first generateText call
StartStrategy ==
  /\ pc = "connect" /\ idx > Len(servers)
  /\ ~sanitizeToolsThrows(mergeTools(connected))
  /\ ~getModelThrows(env, config)
  /\ allTools' = sanitizeTools(mergeTools(connected))
  /\ attempt' = 1
  /\ messages' = << SeedMessage >>
  /\ totalSteps' = 0 /\ totalToolCalls' = 0
  /\ pc' = "strategy"
  /\ UNCHANGED << sanVars, inputs, error, connectVars, closed, invocations, given,
                  results, log, closeIdx, exitCode >>

\* index.ts 150, 156-163: connectMcpServers returns, the tools are merged and
\* sanitizeTools throws; line 163 is outside the try block
SanitizeFails ==
  /\ pc = "connect" /\ idx > Len(servers)
  /\ sanitizeToolsThrows(mergeTools(connected))
  /\ error' = "sanitize"
  /\ pc' = "exit"
  /\ UNCHANGED << sanVars, inputs, connectVars, closed, allTools, strategyVars,
                  closeIdx, exitCode >>

\* the same, but getModel throws (config-strategy.ts 20-46)
StartStrategyFails ==
  /\ pc = "connect" /\ idx > Len(servers)
  /\ ~sanitizeToolsThrows(mergeTools(connected))
  /\ getModelThrows(env, config)
  /\ allTools' = sanitizeTools(mergeTools(connected))
  /\ error' = "config"
  /\ pc' = afterStrategy(TRUE)
  /\ closeIdx' = 1
  /\ UNCHANGED << sanVars, inputs, connectVars, closed, strategyVars, exitCode >>

\* config-strategy.ts 91-135: generateText resolves; the rest of the loop
\* body runs, and the code after the loop if the loop ends
AttemptOk ==
  /\ pc = "strategy"
  /\ \E result \in backend :
     LET steps == totalSteps + Len(result.steps)
         calls == totalToolCalls + countToolCalls(result.steps)
         ends == hasSubmitDecision(result.steps) \/ attempt + 1 > MAX_ATTEMPTS
         completed == [kind |-> "completed", steps |-> steps, calls |-> calls]
     IN /\ result.ok
        /\ invocations' = invocations + 1
        /\ given' = Append(given, messages)
        /\ results' = Append(results, result)
        /\ totalSteps' = steps
        /\ totalToolCalls' = calls
        /\ messages' = IF hasSubmitDecision(result.steps) THEN messages
                       ELSE nextMessages(messages, attempt, result.text)
        /\ attempt' = IF hasSubmitDecision(result.steps) THEN attempt
                      ELSE attempt + 1
        /\ log' = log \o attemptNotice(result.steps, attempt)
                      \o (IF ends THEN << completed >> ELSE <<>>)
        /\ pc' = IF ends THEN afterStrategy(FALSE) ELSE pc
        /\ closeIdx' = IF ends THEN 1 ELSE closeIdx
  /\ UNCHANGED << sanVars, inputs, error, connectVars, closed, allTools, exitCode >>

\* mutant: a rejected generateText is caught and handled like an attempt
\* without submission
InvokeFailsRetried ==
  /\ pc = "strategy"
  /\ Failure \in backend
  /\ invocations' = invocations + 1
  /\ given' = Append(given, messages)
  /\ results' = Append(results, Failure)
  /\ messages' = nextMessages(messages, attempt, "")
  /\ attempt' = attempt + 1
  /\ pc' = IF attempt + 1 > MAX_ATTEMPTS THEN afterStrategy(FALSE) ELSE pc
  /\ closeIdx' = IF attempt + 1 > MAX_ATTEMPTS THEN 1 ELSE closeIdx
  /\ UNCHANGED << sanVars, inputs, error, connectVars, closed, allTools, totalSteps,
                  totalToolCalls, log, exitCode >>

\* config-strategy.ts 91-97: generateText rejects; no handler in the loop
InvokeFails ==
  /\ pc = "strategy"
  /\ Failure \in backend
  /\ invocations' = invocations + 1
  /\ given' = Append(given, messages)
  /\ results' = Append(results, Failure)
  /\ error' = "invoke"
  /\ pc' = afterStrategy(TRUE)
  /\ closeIdx' = 1
  /\ UNCHANGED << sanVars, inputs, connectVars, closed, allTools, attempt, messages,
                  totalSteps, totalToolCalls, log, exitCode >>

\* index.ts 173-177: close of the next connected server resolves
CloseOk ==
  /\ pc = "finally" /\ closeIdx <= Len(connected)
  /\ closed' = [closed EXCEPT ![connected[closeIdx].name] = @ + 1]
  /\ closeIdx' = closeIdx + 1
  /\ pc' = afterClose(closeIdx, FALSE)
  /\ UNCHANGED << sanVars, inputs, error, connectVars, allTools, strategyVars,
                  exitCode >>

\* index.ts 175: close rejects; the rejection leaves the finally block and
\* replaces the error that was propagating
CloseFails ==
  /\ pc = "finally" /\ closeIdx <= Len(connected)
  /\ closed' = [closed EXCEPT ![connected[closeIdx].name] = @ + 1]
  /\ error' = "close"
  /\ pc' = afterClose(closeIdx, TRUE)
  /\ UNCHANGED << sanVars, inputs, connectVars, allTools, strategyVars, closeIdx,
                  exitCode >>

\* index.ts 268-277: runConfigMode settles and main's promise with it
MainSettles ==
  /\ \/ pc = "exit"
     \/ pc = "finally" /\ closeIdx > Len(connected)
  /\ pc' = "done"
  /\ exitCode' = exitCodeOf(error)
  /\ UNCHANGED << sanVars, inputs, error, connectVars, closed, allTools, strategyVars,
                  closeIdx >>

Next ==
  \/ SkipServer \/ CreateClient \/ CreateClientFails
  \/ FetchTools \/ FetchToolsFails
  \/ StartStrategy \/ StartStrategyFails \/ SanitizeFails
  \/ AttemptOk \/ InvokeFails
  \/ CloseOk \/ CloseFails
  \/ MainSettles

Spec == Init /\ [][Next]_vars

\* the decision loop on its own: a run without tool providers
\* (config.mcp_servers absent) against every backend script
StrategyInit ==
  /\ env \in SUBSET {"LLM_API_KEY"}
  /\ config \in ModelConfigs
  /\ servers = <<>>
  /\ backend = Outcomes
  /\ Start
  /\ SanIdle

StrategyNext ==
  \/ StartStrategy \/ StartStrategyFails
  \/ AttemptOk \/ InvokeFails
  \/ MainSettles

StrategySpec == StrategyInit /\ [][StrategyNext]_vars

\* sanitizeSchema on its own, applied once and then to its own result, for
\* every schema tree of at most MaxNodes nodes: a mapping has one or both of
\* SchemaKeys, an array one or two items
SchemaKeys == {"items", "minLength"}
\* the trees of exactly n nodes, from those of fewer nodes (smaller[i] holds
\* the trees of i nodes)
TreesFrom(smaller, n) ==
  { Map([k \in {key} |-> t]) : key \in SchemaKeys, t \in smaller[n - 1] }
  \cup { Arr(<< t >>) : t \in smaller[n - 1] }
  \cup UNION { { Map([k \in SchemaKeys |-> IF k = "items" THEN t1 ELSE t2])
                  : t1 \in smaller[i], t2 \in smaller[n - 1 - i] }
                \cup { Arr(<< t1, t2 >>) : t1 \in smaller[i], t2 \in smaller[n - 1 - i] }
                : i \in 1..(n - 2) }
RECURSIVE TreesBySize(_)
\* << trees of 1 node, ..., trees of n nodes >>
TreesBySize(n) ==
  IF n = 1 THEN << { Leaf("s"), Map(<<>>), Arr(<<>>) } >>
  ELSE LET smaller == TreesBySize(n - 1)
       IN Append(smaller, TreesFrom(smaller, n))
Schemas ==
  LET trees == TreesBySize(MaxNodes)
  IN { t.fields : t \in { u \in UNION { trees[n] : n \in 1..MaxNodes } : u.kind = "map" } }

SanInit ==
  /\ env = {} /\ config \in { c \in ModelConfigs : c.provider = "openai" }
  /\ servers = <<>> /\ backend = {}
  /\ Start
  /\ schema \in Schemas
  /\ cleaned = <<>> /\ cleanedTwice = <<>> /\ sanPc = "input"

\* sanitize-tools.ts 22-52: sanitizeSchema(schema)
Sanitize ==
  /\ sanPc = "input"
  /\ cleaned' = sanitizeSchema(schema)
  /\ sanPc' = "once"
  /\ UNCHANGED << schema, cleanedTwice, inputs, pc, error, connectVars, closed,
                  allTools, strategyVars, closeIdx, exitCode >>

\* sanitize-tools.ts 22-52: sanitizeSchema on the result of sanitizeSchema
SanitizeAgain ==
  /\ sanPc = "once"
  /\ cleanedTwice' = sanitizeSchema(cleaned)
  /\ sanPc' = "twice"
  /\ UNCHANGED << schema, cleaned, inputs, pc, error, connectVars, closed,
                  allTools, strategyVars, closeIdx, exitCode >>

SanNext == Sanitize \/ SanitizeAgain

SanSpec == SanInit /\ [][SanNext]_vars

\* ------------------------------------------------------------- properties
Range(f) == { f[i] : i \in DOMAIN f }
ConnectedNames == { connected[i].name : i \in DOMAIN connected }
\* connectMcpServers returned its list: the run got past line 156
ConnectReturned == pc \in {"strategy", "finally"} \/ (pc \in {"exit", "done"} /\ closeIdx >= 1)
\* runConfigStrategy has returned or thrown
LoopEnded == closeIdx >= 1
RunOver == pc = "done"

\* C1: when connectMcpServers returned its servers and no close fails, then
\* however runConfigStrategy ends (submission, exhaustion, a thrown failure)
\* every connected server is closed exactly once by the end of the run, and
\* no server is closed before runConfigStrategy has ended.
C1_ClosedOnceAfterLoop ==
  /\ (RunOver /\ ConnectReturned /\ error # "close")
        => \A i \in 1..Len(servers) :
             closed[i] = IF i \in ConnectedNames THEN 1 ELSE 0
  /\ (\E i \in 1..Len(servers) : closed[i] > 0) => LoopEnded /\ pc # "strategy"

\* C1 witness: two connected servers, the model invocation failed, both closed
C1_Witness ==
  /\ RunOver /\ error = "invoke" /\ Len(connected) = 2
  /\ \A i \in ConnectedNames : closed[i] = 1

\* C2 (as claimed): when a connection or tool fetch fails after an earlier
\* provider was connected, every connected provider has been closed exactly
\* once when the error reaches the caller.
C2_ClosedOnConnectFailure ==
  (RunOver /\ error \in {"connect", "tools"})
    => \A i \in ConnectedNames : closed[i] = 1

\* C3 (as claimed): when teardown has ended, close has been invoked on every
\* connected server, whichever closes failed.
C3_CloseAttemptedOnAll ==
  (RunOver /\ LoopEnded) => \A i \in ConnectedNames : closed[i] >= 1


\* a result holds a call of the submission tool in some step
CallsSubmit(r) ==
  \E st \in Range(r.steps) : SUBMIT_TOOL \in Range(st.toolCalls)
Compliant(r) == r.ok /\ CallsSubmit(r)
NonCompliant(r) == r.ok /\ ~CallsSubmit(r)
LoopEntered == Len(messages) >= 1

\* C4: a run whose MAX_ATTEMPTS invocations all resolve without a submission
\* call ends after exactly MAX_ATTEMPTS invocations with no error, the
\* conversation being the seed plus 2 * (MAX_ATTEMPTS - 1) messages and equal
\* to the one passed to the last invocation; and as long as every invocation
\* so far resolved without submission and fewer than MAX_ATTEMPTS were made,
\* the loop goes on.
C4_ExhaustionAfterMaxAttempts ==
  (LoopEntered /\ \A k \in 1..Len(results) : NonCompliant(results[k]))
    => IF Len(results) < MAX_ATTEMPTS
         THEN pc = "strategy" /\ invocations = Len(results)
         ELSE /\ invocations = MAX_ATTEMPTS
              /\ Len(results) = MAX_ATTEMPTS
              /\ LoopEnded /\ pc # "strategy" /\ error = "none"
              /\ Len(messages) = 1 + 2 * (MAX_ATTEMPTS - 1)
              /\ messages = given[MAX_ATTEMPTS]
              /\ (RunOver => exitCode = 0)

\* C4 witness: the run is over after MAX_ATTEMPTS attempts without submission
C4_Witness ==
  /\ RunOver /\ Len(results) = MAX_ATTEMPTS
  /\ \A k \in 1..Len(results) : NonCompliant(results[k])

\* C5: when the first invocation's result holds a submission call, the loop
\* has ended after that one invocation and the conversation is exactly the
\* seeded user message.
C5_FirstAttemptSubmission ==
  (Len(results) >= 1 /\ Compliant(results[1]))
    => /\ invocations = 1 /\ Len(results) = 1
       /\ LoopEnded /\ pc # "strategy"
       /\ messages = << SeedMessage >>

\* C5 witness: the run is over, the first result submitted in its first of
\* two steps
C5_Witness ==
  /\ RunOver /\ Len(results) = 1 /\ Compliant(results[1])
  /\ Len(results[1].steps) = 2 /\ SUBMIT_TOOL \in Range(results[1].steps[1].toolCalls)
  /\ SUBMIT_TOOL \notin Range(results[1].steps[2].toolCalls)

\* C6: when the k-th result holds a submission call in any of its steps, it
\* is the last: exactly k invocations are made and the loop has ended.
C6_NoInvocationAfterSubmission ==
  \A k \in 1..Len(results) :
    Compliant(results[k])
      => /\ Len(results) = k /\ invocations = k
         /\ LoopEnded /\ pc # "strategy"
         /\ \A j \in 1..(k - 1) : NonCompliant(results[j])

\* C6 witness: the run is over, the submission came in the last allowed
\* attempt
C6_Witness ==
  /\ RunOver /\ Len(results) = MAX_ATTEMPTS
  /\ Compliant(results[MAX_ATTEMPTS])

RECURSIVE SumSteps(_)
SumSteps(rs) == IF rs = <<>> THEN 0 ELSE Len(Head(rs).steps) + SumSteps(Tail(rs))
RECURSIVE CallsOf(_)
CallsOf(steps) ==
  IF steps = <<>> THEN <<>> ELSE Head(steps).toolCalls \o CallsOf(Tail(steps))
RECURSIVE SumCalls(_)
SumCalls(rs) == IF rs = <<>> THEN 0 ELSE Len(CallsOf(Head(rs).steps)) + SumCalls(Tail(rs))
Completed == { i \in 1..Len(log) : log[i].kind = "completed" }

\* the counters hold the sums over the attempts performed so far
CountersHoldSums ==
  (LoopEntered /\ \A k \in 1..Len(results) : results[k].ok)
    => /\ totalSteps = SumSteps(results)
       /\ totalToolCalls = SumCalls(results)
\* a run that ended without throwing reported the sums, once
SumsReported ==
  (LoopEntered /\ LoopEnded /\ error = "none")
    => /\ Cardinality(Completed) = 1
       /\ log[Len(log)] = [kind |-> "completed", steps |-> SumSteps(results),
                            calls |-> SumCalls(results)]

\* C7: the totals reported at the end of a run that does not throw are the
\* sums of the steps and of the tool calls of all attempts performed, the
\* last one included; the counters hold these sums throughout and never
\* decrease.
C7_CountersAreSums ==
  /\ [](CountersHoldSums /\ SumsReported)
  /\ [][totalSteps' >= totalSteps /\ totalToolCalls' >= totalToolCalls]_vars

\* C7 witness: a finished run of MAX_ATTEMPTS attempts, the last with two
\* steps of two calls each
C7_Witness ==
  /\ RunOver /\ error = "none" /\ Len(results) = MAX_ATTEMPTS
  /\ SumSteps(results) >= 4 /\ totalToolCalls >= 6
  /\ Len(results[MAX_ATTEMPTS].steps) = 2
  /\ Len(CallsOf(results[MAX_ATTEMPTS].steps)) = 4

\* C8: when the k-th invocation fails, it is the last (exactly k invocations),
\* the conversation is the one that was passed to it, the attempt is not
\* counted as one without submission (no report, no totals reported) and
\* the failure is the error of the run.
C8_InvocationFailureAborts ==
  \A k \in 1..Len(results) :
    ~results[k].ok
      => /\ Len(results) = k /\ invocations = k
         /\ LoopEnded /\ pc # "strategy"
         /\ messages = given[k]
         /\ attempt = k
         /\ Len(log) = k - 1 /\ Completed = {}
         /\ error = "invoke"
         /\ (RunOver => exitCode = 1)

\* C8 witness: the run is over, the second invocation failed
C8_Witness ==
  /\ RunOver /\ Len(results) = 2 /\ ~results[2].ok /\ exitCode = 1


\* descriptor i names a required variable that is unset
Gated(i) ==
  \E j \in 1..Len(servers[i].requires) : servers[i].requires[j] \notin env
GatedNeverConnected ==
  \A i \in 1..Len(servers) :
    Gated(i) => /\ opened[i] = 0 /\ fetched[i] = 0 /\ closed[i] = 0
                /\ i \notin ConnectedNames
                /\ \A n \in DOMAIN allTools : allTools[n].owner # i
\* when connectMcpServers has returned, every other descriptor is connected
OthersConnected ==
  ConnectReturned => ConnectedNames = { i \in 1..Len(servers) : ~Gated(i) }
\* the step taken at a gated descriptor moves on to the next one
GatedStep ==
  (pc = "connect" /\ idx <= Len(servers) /\ Gated(idx))
    => /\ pc' = "connect" /\ idx' = idx + 1
       /\ error' = "none" /\ connected' = connected

\* C9: a descriptor that requires an unset variable never has a connection
\* opened or its tools fetched, has no tool in the merged set, is never
\* tried later, and the descriptors after it are processed all the same.
C9_GatedDescriptorSkipped ==
  /\ [](GatedNeverConnected /\ OthersConnected)
  /\ [][GatedStep]_vars

\* C9 witness: the first descriptor is gated on one of two variables, the
\* second is connected and its tools reach the decision loop
C9_Witness ==
  /\ pc = "strategy" /\ Len(servers) = 2
  /\ Gated(1) /\ Len(servers[1].requires) = 2 /\ servers[1].requires[1] \in env
  /\ ConnectedNames = {2} /\ DOMAIN allTools # {}

\* the connection attempt of descriptor i was made and failed
FailedAt(i) ==
  /\ opened[i] >= 1 /\ i \notin ConnectedNames
  /\ ~(pc = "tools" /\ idx = i)

\* C10: when the connection attempt of a descriptor fails, it was tried
\* once, no later descriptor is tried, the decision loop is not entered, no
\* model invocation is made and the run ends with the error.
C10_ConnectFailureAborts ==
  \A i \in 1..Len(servers) :
    FailedAt(i)
      => /\ pc \in {"exit", "done"}
         /\ error \in {"connect", "tools"}
         /\ idx = i /\ opened[i] = 1 /\ fetched[i] <= 1
         /\ \A j \in (i + 1)..Len(servers) : opened[j] = 0 /\ fetched[j] = 0
         /\ ~LoopEntered /\ ~LoopEnded /\ invocations = 0
         /\ (RunOver => exitCode = 1)

\* C10 witness: the first of two descriptors failed to connect, the run is
\* over and the second was never tried
C10_Witness ==
  /\ RunOver /\ Len(servers) = 2 /\ FailedAt(1) /\ ~Gated(2)
  /\ opened[2] = 0 /\ error = "connect"


\* the tool set has been merged and handed to runConfigStrategy
ToolsMerged == pc = "strategy" \/ LoopEnded
\* positions in the connected list of the servers exposing tool n
Exposers(n) == { i \in 1..Len(connected) : n \in DOMAIN connected[i].tools }
LastExposer(n) == CHOOSE i \in Exposers(n) : \A j \in Exposers(n) : j <= i

\* C11: the merged tool set handed to the decision loop holds every name
\* exposed by a connected provider, and for each name the tool of the
\* provider connected last among those exposing it (its schema sanitized when
\* it is an object, the tool itself otherwise); a collision raises no error.
C11_LastProviderWins ==
  ToolsMerged =>
    /\ DOMAIN allTools = UNION { DOMAIN connected[i].tools : i \in 1..Len(connected) }
    /\ \A n \in DOMAIN allTools :
         LET theirs == connected[LastExposer(n)].tools[n]
         IN /\ allTools[n].owner = connected[LastExposer(n)].name
            /\ theirs.inputSchema.kind # "map" => allTools[n] = theirs
            /\ theirs.inputSchema.kind = "map" => allTools[n].inputSchema.kind = "map"
    /\ (pc = "strategy" => error = "none")

\* C11 witness: two connected providers expose "t" with different schemas and
\* the decision loop runs with the second provider's tool
C11_Witness ==
  /\ pc = "strategy" /\ Len(connected) = 2 /\ error = "none"
  /\ Exposers("t") = {1, 2}
  /\ connected[1].tools["t"].inputSchema # connected[2].tools["t"].inputSchema
  /\ allTools["t"].owner = connected[2].name


\* the keys the sanitizer is to remove
Denylisted ==
  {"minLength", "maxLength", "minItems", "maxItems", "exclusiveMinimum",
   "exclusiveMaximum", "pattern", "format", "default", "$schema"}
RECURSIVE HasDenylistedKey(_)
\* some mapping of the tree, at any depth, has a denylisted key
HasDenylistedKey(node) ==
  IF node.kind = "map"
    THEN \E k \in DOMAIN node.fields :
           k \in Denylisted \/ HasDenylistedKey(node.fields[k])
  ELSE IF node.kind = "seq"
    THEN \E i \in 1..Len(node.items) : HasDenylistedKey(node.items[i])
  ELSE FALSE
\* C12 (as claimed): the result of sanitizeSchema has a denylisted key in no
\* mapping at any depth, arrays and arrays of arrays included.
C12_NoDenylistedKeyLeft ==
  sanPc # "input" => ~HasDenylistedKey(Map(cleaned))

\* C14: sanitizeSchema applied to its own result returns that result.
C14_SanitizeIdempotent ==
  sanPc = "twice" => cleanedTwice = cleaned

\* C14 witness: sanitizeSchema removed minLength at the top and inside the
\* mapping under "items", and was applied again
C14_Witness ==
  /\ sanPc = "twice"
  /\ DOMAIN schema = {"items", "minLength"}
  /\ schema["items"].kind = "map"
  /\ DOMAIN schema["items"].fields = {"minLength"}
  /\ cleaned = [k \in {"items"} |-> Map(<<>>)]
  /\ cleanedTwice = cleaned

\* C15: a schema tree without a denylisted key at any depth is returned as
\* it is.
C15_CleanSchemaUnchanged ==
  (sanPc # "input" /\ ~HasDenylistedKey(Map(schema))) => cleaned = schema

\* C15 witness: a tree of MaxNodes nodes without denylisted key, an array of
\* a leaf and a mapping in it, went through sanitizeSchema unchanged
C15_Witness ==
  /\ sanPc = "once" /\ ~HasDenylistedKey(Map(schema))
  /\ DOMAIN schema = {"items"} /\ schema["items"].kind = "seq"
  /\ Len(schema["items"].items) = 2
  /\ schema["items"].items[1].kind = "leaf"
  /\ schema["items"].items[2] = Map([k \in {"items"} |-> Leaf("s")])
  /\ cleaned = schema


\* sanitizeTools has been called: connectMcpServers returned
SanitizeCalled ==
  \/ pc \in {"strategy", "finally"}
  \/ pc \in {"exit", "done"} /\ error \notin {"connect", "tools"}

\* C13 (as claimed): sanitizeTools removes no tool: its result has the names
\* of its argument, and a tool whose schema resolution fails or yields no
\* object is in the result as it was, the other tools being sanitized all
\* the same.
C13_NoToolRemoved ==
  SanitizeCalled =>
    /\ error # "sanitize"
    /\ DOMAIN allTools = UNION { DOMAIN connected[i].tools : i \in 1..Len(connected) }
    /\ \A n \in DOMAIN allTools :
         LET theirs == connected[LastExposer(n)].tools[n]
         IN theirs.inputSchema.kind # "map" => allTools[n] = theirs


IsPrefix(a, b) == Len(a) <= Len(b) /\ SubSeq(b, 1, Len(a)) = a
\* the conversation passed to an invocation strictly extends the one passed
\* to the invocation before, and the present conversation extends them all
GivenGrows ==
  /\ \A n \in 1..(Len(given) - 1) :
       IsPrefix(given[n], given[n + 1]) /\ Len(given[n]) < Len(given[n + 1])
  /\ \A n \in 1..Len(given) : IsPrefix(given[n], messages)

\* C16: the conversation is append-only within a run: every step leaves the
\* messages present as a prefix of the new conversation, and the messages
\* passed to attempt n are a strict prefix of those passed to attempt n + 1.
C16_ConversationAppendOnly ==
  /\ []GivenGrows
  /\ [][IsPrefix(messages, messages')]_vars

\* C16 witness: a finished run of MAX_ATTEMPTS invocations in which the two
\* echoed answers differ
C16_Witness ==
  /\ RunOver /\ Len(given) = MAX_ATTEMPTS /\ Len(messages) = 5
  /\ messages[2].content # messages[4].content


\* the reports about attempt k
Notices(k) ==
  { i \in 1..Len(log) : log[i].kind \in {"retry", "warning"} /\ log[i].attempt = k }
Warned == \E i \in 1..Len(log) : log[i].kind = "warning"
\* an attempt that completed without submission has exactly one report, a
\* retry notice below MAX_ATTEMPTS and the warning at MAX_ATTEMPTS; any other
\* attempt has none
OneReportPerAttempt ==
  /\ \A k \in 1..Len(results) :
       IF NonCompliant(results[k])
         THEN /\ Cardinality(Notices(k)) = 1
              /\ \A i \in Notices(k) :
                   log[i].kind = IF k < MAX_ATTEMPTS THEN "retry" ELSE "warning"
         ELSE Notices(k) = {}
  /\ \A i \in 1..Len(log) :
       log[i].kind \in {"retry", "warning"} => log[i].attempt \in 1..Len(results)

\* C17 (as claimed): one report per attempt without submission, and the
\* warning is emitted if and only if the run ends with MAX_ATTEMPTS
\* invocations and no submission.
C17_WarningIffMaxInvocations ==
  /\ OneReportPerAttempt
  /\ (LoopEntered /\ LoopEnded)
       => (Warned <=> /\ invocations = MAX_ATTEMPTS
                      /\ \A k \in 1..Len(results) : ~CallsSubmit(results[k]))

\* C17 (amended): one report per attempt without submission, and the warning
\* is emitted if and only if MAX_ATTEMPTS invocations were made and each of
\* them completed without a submission call.
C17_WarningIffAllCompleteWithoutSubmission ==
  /\ OneReportPerAttempt
  /\ (LoopEntered /\ LoopEnded)
       => (Warned <=> /\ invocations = MAX_ATTEMPTS
                      /\ \A k \in 1..Len(results) : NonCompliant(results[k]))

\* C17 witness: a finished run with two retry notices, the warning and the
\* final totals
C17_Witness ==
  /\ RunOver /\ Warned /\ Len(log) = MAX_ATTEMPTS + 1
  /\ log[1].kind = "retry" /\ log[2].kind = "retry"
  /\ log[MAX_ATTEMPTS].kind = "warning"


\* the descriptors before the current one are done (skipped, or opened and
\* fetched once and in the list), the ones after it untouched, the current
\* one opened at most once and not yet fetched while its tools are awaited
OneAtATime ==
  /\ \A i \in 1..Len(servers) :
       /\ opened[i] <= 1 /\ fetched[i] <= opened[i]
       /\ i < idx => IF Gated(i) THEN opened[i] = 0 /\ i \notin ConnectedNames
                      ELSE opened[i] = 1 /\ fetched[i] = 1 /\ i \in ConnectedNames
       /\ i > idx => opened[i] = 0 /\ fetched[i] = 0 /\ i \notin ConnectedNames
  /\ pc = "tools" => opened[idx] = 1 /\ fetched[idx] = 0 /\ idx \notin ConnectedNames
\* the connected list is in descriptor order, without repetition
InDescriptorOrder ==
  \A a \in 1..Len(connected) : \A b \in 1..Len(connected) :
    a < b => connected[a].name < connected[b].name
\* the list only grows at its end, and once connectMcpServers is left nothing
\* is opened or fetched any more
ListFrozen ==
  /\ IsPrefix(connected, connected')
  /\ pc \notin {"connect", "tools"}
       => opened' = opened /\ fetched' = fetched /\ connected' = connected

\* C18: the providers are connected one at a time in descriptor order: each
\* one that is not skipped is opened and has its tools fetched exactly once
\* before the next descriptor is looked at, nothing is fetched again later in
\* the run, and the connected list keeps the descriptor order.
C18_ConnectedInOrder ==
  /\ [](OneAtATime /\ InDescriptorOrder)
  /\ [][ListFrozen]_vars

\* C18 witness: two descriptors were connected in turn and the decision loop
\* runs
C18_Witness ==
  /\ pc = "strategy" /\ Len(connected) = 2
  /\ connected[1].name = 1 /\ connected[2].name = 2
  /\ opened = <<1, 1>> /\ fetched = <<1, 1>>


\* the role expected at position j of a conversation
RoleAt(j) == IF j % 2 = 1 THEN "user" ELSE "assistant"

\* C19: the conversation passed to the n-th invocation has 2n - 1 messages
\* with roles user, assistant, user, ..., user; the message at position 2i is
\* the text returned by attempt i, the first message is the seed and every
\* later user message is the corrective instruction.
C19_ConversationShape ==
  /\ Len(given) = invocations /\ invocations <= MAX_ATTEMPTS
  /\ \A n \in 1..Len(given) :
       /\ Len(given[n]) = 2 * n - 1
       /\ \A j \in 1..Len(given[n]) : given[n][j].role = RoleAt(j)
       /\ given[n][1] = SeedMessage
       /\ \A i \in 1..(n - 1) :
            /\ given[n][2 * i].content = results[i].text
            /\ given[n][2 * i + 1] = CorrectiveMessage

\* C19 witness: the third invocation was made with five messages, the two
\* echoed answers being different texts
C19_Witness ==
  /\ Len(given) = MAX_ATTEMPTS /\ Len(given[MAX_ATTEMPTS]) = 5
  /\ results[1].text = "hold" /\ results[2].text = "buy"
  /\ given[MAX_ATTEMPTS][2].content = "hold" /\ given[MAX_ATTEMPTS][4].content = "buy"

====
